---- MODULE Spec2Model ----
(***************************************************************************)
(* Model of the shared IPAM reconciler (package ipamshared, shared.go):    *)
(* SharedController.NameFor, MakeEvent, LogEventAndFail,                   *)
(* IpAddressCreatedOrUpdated and IpAddressDeleted, run by several          *)
(* controller instances against one resource store and one IPAM backend.   *)
(*                                                                         *)
(* The IPAM backend (go-ipam), the resource store (the Kubernetes API      *)
(* server) and the delivery mechanism (informer + work queue) are outside  *)
(* the package.  They are modelled as the environment of the handlers:     *)
(* every call into them may fail, Assign may return any address, Search    *)
(* may return any list of addresses, and Update is version checked.        *)
(***************************************************************************)
EXTENDS Integers, Sequences, FiniteSets, TLC

(* ---------------------------- bounds ----------------------------------- *)

\* ExternalEdit stops once the stored ResourceVersion reaches this value.
MaxVersion == 1

\* Size of the backend's address pool.
NumAddresses == 2

(* ------------------------- finite domains ------------------------------ *)

\* The controller instances that watch the same resource kind.
Instances == {"c1", "c2"}

AddrName == <<"10.0.0.5", "10.0.0.6", "10.0.0.7", "10.0.0.8">>

Addresses == {AddrName[k] : k \in 1..NumAddresses}

\* Values of SharedController.IpamName ("" is the zero value of the field).
IpamNames == {"", "provA", "provB"}

\* Values of SharedController.Tag.
Tags == {"prod", "dev"}

\* Identities of objects.
Namespaces == {"ns1", "ns2"}

Names == {"a", "b"}

\* The template of the documentation, and one that parses but whose
\* execution fails (it names a field the data struct does not have).
DefaultTemplate == "{{.Tag}}-{{.Namespace}}-{{.Name}}"

BadTemplate == "{{.Missing}}"

\* Another template that renders.
DottedTemplate == "{{.Name}}.{{.Namespace}}"

Templates == {DefaultTemplate, BadTemplate, DottedTemplate}

SpecNames == {"", "web1"}

\* A reference is a query string; VerbRef is one with a percent sign.
VerbRef == "host=%s"

SpecRefs == {"", "host=x", VerbRef}

\* Provider identity of a controller that is not one of Instances.
OtherProvider == "other"

\* Error text returned by a failing backend or store call.
BackendErr == "ipam: request failed"

StoreErr == "the object has been modified"

Err == "error"

(* ----------------------------- state ----------------------------------- *)

VARIABLES
  cfg,        \* cfg[c]: the fields Tag, NameTemplate, IpamName of instance c
  stored,     \* the IpAddress object in the resource store
  present,    \* FALSE once the object was deleted from the store
  cache,      \* cache[c]: the snapshot instance c's informer holds
  delState,   \* delState[c]: "no", "pending" (deletion queued), "done"
  allocated,  \* addresses allocated in the IPAM backend
  released,   \* instances whose IpAddressDeleted called Unassign
  assigned,   \* who persisted a fresh assignment: [inst, addr] or NoAssign
  last        \* record of the most recent handler invocation

vars == <<cfg, stored, present, cache, delState, allocated, released,
          assigned, last>>

NoAssign == [inst |-> "none", addr |-> ""]

EmptyStatus == [Address |-> "", Name |-> "", Provider |-> ""]

\* Status values an object can carry before any instance handled it: empty,
\* or written by another provider or by a version without Provider.
InitStatuses ==
  {EmptyStatus} \cup
  {[Address |-> AddrName[1], Name |-> "legacy", Provider |-> p] :
      p \in {"", OtherProvider}} \cup
  {[Address |-> "", Name |-> "", Provider |-> OtherProvider]}

(* --------------------------- NameFor ----------------------------------- *)

\* text/template Execute on struct{Tag, Namespace, Name string}.
TemplateExecute(t, tag, ns, name) ==
  IF t = DefaultTemplate
    THEN [err |-> FALSE, out |-> tag \o "-" \o ns \o "-" \o name]
  ELSE IF t = DottedTemplate
    THEN [err |-> FALSE, out |-> name \o "." \o ns]
    ELSE [err |-> TRUE, out |-> ""]

\* Variant: the template is executed whatever Spec.Name is.
NameFor_AlwaysRenders(c, a) ==
  LET r == TemplateExecute(c.NameTemplate, c.Tag, a.Namespace, a.Name)
  IN  IF r.err THEN [panic |-> TRUE, name |-> "", rendered |-> TRUE]
      ELSE [panic |-> FALSE,
            name |-> IF a.Spec.Name # "" THEN a.Spec.Name ELSE r.out,
            rendered |-> TRUE]

\* Variant: the provider identity is handed to the template as the tag.
NameFor_IpamNameAsTag(c, a) ==
  IF a.Spec.Name # ""
    THEN [panic |-> FALSE, name |-> a.Spec.Name, rendered |-> FALSE]
    ELSE LET r == TemplateExecute(c.NameTemplate, c.IpamName, a.Namespace,
                                  a.Name)
         IN  IF r.err THEN [panic |-> TRUE, name |-> "", rendered |-> TRUE]
                      ELSE [panic |-> FALSE, name |-> r.out, rendered |-> TRUE]

\* Variant: the error of Execute is dropped and the empty buffer returned.
NameFor_IgnoreError(c, a) ==
  IF a.Spec.Name # ""
    THEN [panic |-> FALSE, name |-> a.Spec.Name, rendered |-> FALSE]
    ELSE LET r == TemplateExecute(c.NameTemplate, c.Tag, a.Namespace, a.Name)
         IN  [panic |-> FALSE, name |-> r.out, rendered |-> TRUE]

\* The result of NameFor: whether it panicked, the name it returned, and
\* whether it executed the template.
NameFor(c, a) ==
  IF a.Spec.Name # ""
    THEN [panic |-> FALSE, name |-> a.Spec.Name, rendered |-> FALSE]
    ELSE LET r == TemplateExecute(c.NameTemplate, c.Tag, a.Namespace, a.Name)
         IN  IF r.err THEN [panic |-> TRUE, name |-> "", rendered |-> TRUE]
                      ELSE [panic |-> FALSE, name |-> r.out, rendered |-> TRUE]

\* NameFor was not called.
NotResolved == [panic |-> FALSE, name |-> "", rendered |-> FALSE]

(* ------------------- MakeEvent, LogEventAndFail ------------------------ *)

\* One call into a collaborator: the function, its argument, whether it
\* returned without error, and the value it returned.
Call(fn, arg, ok, res) == [fn |-> fn, arg |-> arg, ok |-> ok, res |-> res]

\* A message is the list of the parts fmt.Sprintf puts together.
\* fmt.Errorf takes the finished message as its format string: a part that
\* is a formatting verb has no operand and is rendered as %!verb(MISSING).
VerbTexts == {VerbRef}

\* A verb without operand, as fmt prints it.
Missing(part) == IF part = VerbRef THEN "host=%!s(MISSING)" ELSE part

\* Variant: the message is the operand of a "%s" format.
Errorf_Verbatim(message) == message

Errorf(message) ==
  [k \in DOMAIN message |->
     IF message[k] \in VerbTexts THEN Missing(message[k]) ELSE message[k]]

\* The Events(...).Create call; created says whether the store accepted it.
MakeEvent(o, message, warn, created) ==
  Call("Events.Create",
       [Type            |-> IF warn THEN "Warning" ELSE "Normal",
        Message         |-> message,
        Name            |-> o.Name,
        Namespace       |-> o.Namespace,
        Kind            |-> "IpAddress",
        ResourceVersion |-> o.ResourceVersion],
       created, IF created THEN "nil" ELSE Err)

\* The event's own error is dropped; the message comes back as the error.
LogEventAndFail(o, message, created) ==
  [calls |-> <<MakeEvent(o, message, TRUE, created)>>,
   err   |-> Errorf(message)]

(* ------------------------ collaborators -------------------------------- *)

\* IpAddresses(ns).Update(a2): rejected when the object is gone, when a2
\* does not carry the stored version, or when the store fails (inject).
UpdateAccepted(st, pres, a2, inject) ==
  pres /\ ~inject /\ a2.ResourceVersion = st.ResourceVersion

UpdateResult(st, pres, a2, inject) ==
  IF UpdateAccepted(st, pres, a2, inject)
    THEN [a2 EXCEPT !.ResourceVersion = @ + 1]
    ELSE st

\* All lists of distinct addresses taken from the set S.
RECURSIVE AddrLists(_)
AddrLists(S) ==
  {<<>>} \cup UNION {{<<x>> \o l : l \in AddrLists(S \ {x})} : x \in S}

\* What Search returns: an error, or a list of addresses.
SearchResults ==
  {[err |-> TRUE, addrs |-> <<>>]} \cup
  {[err |-> FALSE, addrs |-> l] : l \in AddrLists(Addresses)}

\* What the collaborators answer during one handler invocation.  Only the
\* answers to calls the handler can make on the object are enumerated.
Envs ==
  [assign   : Addresses \cup {Err},
   search   : SearchResults,
   inject   : BOOLEAN,
   unassign : {"nil", Err},
   created  : BOOLEAN]

CreateEnvs(a) ==
  {env \in Envs :
     /\ env.unassign = "nil"
     /\ a.Spec.Ref = "" => env.search = [err |-> TRUE, addrs |-> <<>>]
     /\ a.Spec.Ref # "" => env.assign = Err}

DeleteEnvs ==
  {env \in Envs :
     /\ env.assign = Err
     /\ env.search = [err |-> TRUE, addrs |-> <<>>]
     /\ ~env.inject}

(* ------------------ IpAddressCreatedOrUpdated -------------------------- *)

\* What an invocation leaves behind: its return, the calls it made in
\* order, the argument object after the call, the store and the backend.
Outcome(ret, err, calls, aOut, st, alloc, persisted) ==
  [ret |-> ret, err |-> err, calls |-> calls, aOut |-> aOut,
   stored |-> st, allocated |-> alloc, persisted |-> persisted]

\* return c.LogEventAndFail(a, message)
Fail(a, calls, message, st, alloc, env) ==
  LET f == LogEventAndFail(a, message, env.created)
  IN  Outcome(Err, f.err, calls \o f.calls, a, st, alloc, FALSE)

\* Variant: the status is never looked at.
Unassigned_Always(a) == TRUE

\* Line 98: the object has no address yet.
Unassigned(a) == a.Status.Address = ""

\* Line 105: the object asks for a new address, not for an existing one.
WantsNewAddress(a) == a.Spec.Ref = ""

\* Variant: the error of Assign is not looked at.
AssignFailed_Never(res) == FALSE

\* Line 107: Assign returned an error.
AssignFailed(res) == res = Err

\* Lines 116 and 118: the number of matches is not one.
NoMatch(addresses) == Len(addresses) = 0

\* Variant: the first of several matches is taken.
ManyMatches_Never(addresses) == FALSE

ManyMatches(addresses) == Len(addresses) > 1

\* Variant: the tag is recorded as the provider.
NewObject_TagAsProvider(c, a, oname, ip) ==
  [a EXCEPT !.Status = [Address  |-> ip,
                        Name     |-> oname,
                        Provider |-> c.Tag]]

\* Variant: the object is built anew, without the fields others maintain.
NewObject_DropsMeta(c, a, oname, ip) ==
  [a EXCEPT !.Meta = 0,
            !.Status = [Address  |-> ip,
                        Name     |-> oname,
                        Provider |-> c.IpamName]]

\* Lines 127-130: the copy of the object that carries the new status.
NewObject(c, a, oname, ip) ==
  [a EXCEPT !.Status = [Address  |-> ip,
                        Name     |-> oname,
                        Provider |-> c.IpamName]]

\* Variant: the address is given back when the Update fails.
UpdateFailed_Release(a, calls, ip, st, alloc, env) ==
  Fail(a, Append(calls, Call("Unassign", ip, TRUE, "nil")),
       <<"assigned address ", ip, " for '", a.Namespace, "-", a.Name,
         "', but could not update object: ", StoreErr>>,
       st, alloc \ {ip}, env)

\* Lines 134-136: a failed Update is reported; nothing is released.
UpdateFailed(a, calls, ip, st, alloc, env) ==
  Fail(a, calls,
       <<"assigned address ", ip, " for '", a.Namespace, "-", a.Name,
         "', but could not update object: ", StoreErr>>,
       st, alloc, env)

\* Variant: a2 is the argument itself, not a copy of it.
ArgAfter_Aliased(a, a2) == a2

\* Line 127: a2 is a deep copy, so the argument a keeps its value.
ArgAfter(a, a2) == a

\* Lines 127-136: copy, set the status on the copy, Update.
WriteBack(c, a, oname, ip, calls, st, pres, alloc, env) ==
  LET a2 == NewObject(c, a, oname, ip)
      ok == UpdateAccepted(st, pres, a2, env.inject)
      st2 == UpdateResult(st, pres, a2, env.inject)
      calls2 == Append(calls, Call("Update", a2, ok, IF ok THEN "nil" ELSE Err))
      o == IF ~ok
             THEN UpdateFailed(a, calls2, ip, st2, alloc, env)
             ELSE Outcome("nil", <<>>, calls2, a, st2, alloc, TRUE)
  IN  [o EXCEPT !.aOut = ArgAfter(a, a2)]

\* Lines 106-109: ip, err = c.Ipam.Assign(oname)
AssignNew(c, a, oname, st, pres, alloc, env) ==
  LET assign == Call("Assign", oname, env.assign # Err, env.assign)
      alloc2 == IF env.assign # Err THEN alloc \cup {env.assign} ELSE alloc
  IN
  IF AssignFailed(env.assign)
    THEN Fail(a, <<assign>>,
              <<"could not assign new address for '", a.Namespace, "-",
                a.Name, "': ", BackendErr>>,
              st, alloc2, env)
    ELSE WriteBack(c, a, oname, env.assign, <<assign>>, st, pres, alloc2, env)

\* Lines 111-122: addresses, err := c.Ipam.Search(a.Spec.Ref, true)
ResolveRef(c, a, oname, st, pres, alloc, env) ==
  LET search == Call("Search", <<a.Spec.Ref, TRUE>>, ~env.search.err,
                     env.search.addrs)
      addresses == env.search.addrs
  IN
  IF env.search.err
    THEN Fail(a, <<search>>,
              <<"error searching for address matching '", a.Spec.Ref,
                "' for '", a.Namespace, "-", a.Name, "': ", BackendErr>>,
              st, alloc, env)
  ELSE IF NoMatch(addresses)
    THEN Fail(a, <<search>>,
              <<"did not find address matching '", a.Spec.Ref,
                "' for '", a.Namespace, "-", a.Name, "'">>,
              st, alloc, env)
  ELSE IF ManyMatches(addresses)
    THEN Fail(a, <<search>>,
              <<"found ", ToString(Len(addresses)), " addresses matching '",
                a.Spec.Ref, "' for '", a.Namespace, "-", a.Name,
                "', need exactly one">>,
              st, alloc, env)
  ELSE WriteBack(c, a, oname, addresses[1], <<search>>, st, pres, alloc, env)

\* Lines 98-144: the handler once oname is known.
Reconcile(c, a, oname, st, pres, alloc, env) ==
  IF Unassigned(a) THEN
    IF WantsNewAddress(a)
      THEN AssignNew(c, a, oname, st, pres, alloc, env)
      ELSE ResolveRef(c, a, oname, st, pres, alloc, env)
  ELSE Outcome("nil", <<>>, <<>>, a, st, alloc, FALSE)

\* The outcome o of an invocation whose call of NameFor gave n.
Named(o, n) ==
  [ret |-> o.ret, err |-> o.err, calls |-> o.calls, aOut |-> o.aOut,
   stored |-> o.stored, allocated |-> o.allocated,
   persisted |-> o.persisted, oname |-> n]

\* Variant: the status is looked at first, the name resolved only if needed.
IpAddressCreatedOrUpdated_StatusFirst(c, a, st, pres, alloc, env) ==
  IF ~Unassigned(a)
    THEN Named(Outcome("nil", <<>>, <<>>, a, st, alloc, FALSE), NotResolved)
    ELSE LET n == NameFor(c, a)
         IN  Named(IF n.panic
                     THEN Outcome("panic", <<>>, <<>>, a, st, alloc, FALSE)
                     ELSE Reconcile(c, a, n.name, st, pres, alloc, env),
                   n)

\* Lines 93-145.  NameFor runs first (line 96), before the status is read;
\* its panic (line 49) ends the invocation.
IpAddressCreatedOrUpdated(c, a, st, pres, alloc, env) ==
  LET n == NameFor(c, a)
  IN  Named(IF n.panic
              THEN Outcome("panic", <<>>, <<>>, a, st, alloc, FALSE)
              ELSE Reconcile(c, a, n.name, st, pres, alloc, env),
            n)

(* ----------------------- IpAddressDeleted ------------------------------ *)

\* Variants: the provider is not looked at; the comparison is inverted.
ForeignProvider_Never(c, a) == FALSE

ForeignProvider_Inverted(c, a) ==
  a.Status.Provider # "" /\ a.Status.Provider = c.IpamName

\* Line 153: the status names a provider, and it is not this instance.
ForeignProvider(c, a) ==
  a.Status.Provider # "" /\ a.Status.Provider # c.IpamName

\* Variant: an empty address is released like any other.
NeverAssigned_Never(a) == FALSE

\* Line 158: the object was never assigned.
NeverAssigned(a) == a.Status.Address = ""

\* Variant: references are released like owned addresses.
IsReference_Never(a) == FALSE

\* Line 164: the address was a reference.
IsReference(a) == a.Spec.Ref # ""

\* Variant: the resolved name is handed to Unassign.
UnassignArg_Name(a) == a.Status.Name

\* Line 170: the address handed to Unassign.
UnassignArg(a) == a.Status.Address

\* Lines 147-178.
IpAddressDeleted(c, a, st, alloc, env) ==
  IF ForeignProvider(c, a)
    THEN Outcome("nil", <<>>, <<>>, a, st, alloc, FALSE)
  ELSE IF NeverAssigned(a)
    THEN Outcome("nil", <<>>, <<>>, a, st, alloc, FALSE)
  ELSE IF IsReference(a)
    THEN Outcome("nil", <<>>, <<>>, a, st, alloc, FALSE)
  ELSE
    LET unassign == Call("Unassign", UnassignArg(a), env.unassign # Err,
                         env.unassign)
        alloc2 == IF env.unassign # Err THEN alloc \ {UnassignArg(a)}
                  ELSE alloc
    IN
    IF env.unassign = Err
      THEN Fail(a, <<unassign>>,
                <<"could not unassign address ", a.Status.Address, " for '",
                  a.Namespace, "-", a.Name, "' from IPAM: ", BackendErr>>,
                st, alloc2, env)
      ELSE Outcome("nil", <<>>, <<unassign>>, a, st, alloc2, FALSE)

(* ---------------------------- actions ---------------------------------- *)

Configs == [Tag : Tags, NameTemplate : Templates, IpamName : IpamNames]

Objects ==
  [Namespace : Namespaces, Name : Names, ResourceVersion : {0}, Meta : {0},
   Spec : [Name : SpecNames, Ref : SpecRefs], Status : InitStatuses]

\* No handler has just returned.
NoCall(st) ==
  [op |-> "none", inst |-> "none", a |-> st, aOut |-> st, ret |-> "nil",
   err |-> <<>>, calls |-> <<>>, persisted |-> FALSE, oname |-> NotResolved]

InitWith(cfgs, objs) ==
  /\ cfg \in cfgs
  /\ stored \in objs
  /\ present = TRUE
  /\ cache = [c \in Instances |-> stored]
  /\ delState = [c \in Instances |-> "no"]
  /\ allocated = IF stored.Status.Address = "" THEN {}
                 ELSE {stored.Status.Address}
  /\ released = {}
  /\ assigned = NoAssign
  /\ last = NoCall(stored)

\* Two instances share the store and the backend.  The second is a named
\* provider; the first is the same provider, another one, or an unnamed one.
SecondConfig ==
  [Tag |-> "prod", NameTemplate |-> DefaultTemplate, IpamName |-> "provB"]

\* The life of one object, ns1/a, under tag prod.
OneTag(f) == f["c2"] = SecondConfig /\ f["c1"].Tag = "prod"

OneObject(o) ==
  o.Namespace = "ns1" /\ o.Name = "a" /\ o.Spec.Ref # VerbRef

LifeConfigs ==
  {f \in [Instances -> Configs] :
     OneTag(f) /\ f["c1"].NameTemplate = DefaultTemplate}

\* An object named by the template, with or without Ref: a new one without
\* status, or one assigned before the status recorded a provider.
Init ==
  InitWith(LifeConfigs,
           {o \in Objects : /\ OneObject(o)
                            /\ o.Spec.Name = ""
                            /\ o.Status.Provider = ""})

\* One instance, every configuration and every object it can be handed.
OneConfigs ==
  {f \in [Instances -> Configs] :
     OneTag(f) /\ f["c1"].NameTemplate \in {DefaultTemplate, BadTemplate}}

InitOne == InitWith(OneConfigs, {o \in Objects : OneObject(o)})

\* One invocation of each handler, for every tag, template, provider name
\* and object.
CallConfigs == {f \in [Instances -> Configs] : f["c2"] = SecondConfig}

InitCall == InitWith(CallConfigs, Objects)

Record(op, c, a, o) ==
  [op |-> op, inst |-> c, a |-> a, aOut |-> o.aOut, ret |-> o.ret,
   err |-> o.err, calls |-> o.calls, persisted |-> o.persisted,
   oname |-> o.oname]

HasCall(calls, fn) == \E k \in DOMAIN calls : calls[k].fn = fn

\* The informer of instance c catches up with the store.
Sync(c) ==
  /\ present
  /\ cache[c] # stored
  /\ cache' = [cache EXCEPT ![c] = stored]
  /\ last' = NoCall(stored)
  /\ UNCHANGED <<cfg, stored, present, delState, allocated, released,
                 assigned>>

\* Somebody else writes the object (metadata only): the version moves on.
ExternalEdit ==
  /\ present
  /\ stored.ResourceVersion < MaxVersion
  /\ stored' = [stored EXCEPT !.ResourceVersion = @ + 1, !.Meta = @ + 1]
  /\ last' = NoCall(stored')
  /\ UNCHANGED <<cfg, present, cache, delState, allocated, released,
                 assigned>>

\* The object is deleted from the store; every informer queues the deletion
\* and delivers no further update of the object.
UserDelete ==
  /\ present
  /\ present' = FALSE
  /\ delState' = [c \in Instances |-> "pending"]
  /\ last' = NoCall(stored)
  /\ UNCHANGED <<cfg, stored, cache, allocated, released, assigned>>

\* Instance c is handed its snapshot by the created-or-updated callback.
CreatedOrUpdated(c) ==
  /\ delState[c] = "no"
  /\ stored.ResourceVersion <= MaxVersion
  /\ \E env \in CreateEnvs(cache[c]) :
       \E o \in {IpAddressCreatedOrUpdated(cfg[c], cache[c], stored, present,
                                            allocated, env)} :
         /\ stored' = o.stored
         /\ allocated' = o.allocated
         /\ assigned' = IF o.persisted /\ HasCall(o.calls, "Assign")
                          THEN [inst |-> c,
                                addr |-> o.calls[1].res]
                          ELSE assigned
         /\ last' = Record("CreatedOrUpdated", c, cache[c], o)
  /\ UNCHANGED <<cfg, present, cache, delState, released>>

\* Instance c is handed the deleted object: its final state, or the state
\* its informer last saw when the final one was missed.
Deleted(c) ==
  /\ delState[c] = "pending"
  /\ \E env \in DeleteEnvs, a \in {stored, cache[c]} :
       \E o \in {Named(IpAddressDeleted(cfg[c], a, stored, allocated, env),
                        NotResolved)} :
         /\ allocated' = o.allocated
         /\ released' = IF HasCall(o.calls, "Unassign")
                          THEN released \cup {c} ELSE released
         /\ delState' = [delState EXCEPT
                           ![c] = IF o.ret = "nil" THEN "done" ELSE "pending"]
         /\ last' = Record("Deleted", c, a, o)
  /\ UNCHANGED <<cfg, stored, present, cache, assigned>>

\* Two instances: each one's writes are the concurrent edits of the other.
Next ==
  \/ \E c \in Instances : Sync(c)
  \/ UserDelete
  \/ \E c \in Instances : CreatedOrUpdated(c)
  \/ \E c \in Instances : Deleted(c)

Spec == Init /\ [][Next]_vars

\* One instance, next to writers that are not modelled as instances.
NextOne ==
  \/ Sync("c1")
  \/ ExternalEdit
  \/ UserDelete
  \/ CreatedOrUpdated("c1")
  \/ Deleted("c1")

SpecOne == InitOne /\ [][NextOne]_vars

\* The first delivery of an object to instance c.
FirstDelivery(c) == last.op = "none" /\ CreatedOrUpdated(c)

\* The handlers of one instance on every object: one delivery of the object,
\* then its deletion.
NextCall ==
  \/ UserDelete
  \/ FirstDelivery("c1")
  \/ Deleted("c1")

SpecCall == InitCall /\ [][NextCall]_vars

\* The deletion is delivered with the object as it was last stored.
FinalDeleted(c) == Deleted(c) /\ last'.a = stored

\* One instance and an object that asks for an address of its own; the
\* mechanism delivers the stored object again after an error.
InitLive ==
  InitWith(OneConfigs, {o \in Objects : OneObject(o) /\ o.Spec.Ref = ""})

NextLive ==
  \/ Sync("c1")
  \/ UserDelete
  \/ CreatedOrUpdated("c1")
  \/ FinalDeleted("c1")

\* Redelivery: the informer catches up and the handlers keep being invoked
\* while an invocation can still change something.
Redelivery ==
  /\ WF_vars(Sync("c1"))
  /\ WF_vars(CreatedOrUpdated("c1"))
  /\ WF_vars(FinalDeleted("c1"))

SpecLive == InitLive /\ [][NextLive]_vars /\ Redelivery

TypeOK ==
  /\ cfg \in [Instances -> Configs]
  /\ present \in BOOLEAN
  /\ allocated \subseteq Addresses
  /\ released \subseteq Instances

(* ------------------------------ claims --------------------------------- *)

\* Number of calls of fn the invocation r made, and the first of them.
NCalls(r, fn) == Cardinality({k \in DOMAIN r.calls : r.calls[k].fn = fn})

TheCall(r, fn) == r.calls[CHOOSE k \in DOMAIN r.calls : r.calls[k].fn = fn]

AllCallsOk(r) == \A k \in DOMAIN r.calls : r.calls[k].ok

\* Name resolution aborts: no explicit name, and the template does not render.
NameAborts(c, a) == a.Spec.Name = "" /\ c.NameTemplate = BadTemplate

\* The resolved name when resolution does not abort.
ResolvedName(c, a) ==
  IF a.Spec.Name # "" THEN a.Spec.Name
  ELSE c.Tag \o "-" \o a.Namespace \o "-" \o a.Name

\* C1 as stated: for every object with a non-empty Status.Address and every
\* controller configuration, IpAddressCreatedOrUpdated returns nil and calls
\* no collaborator.
C1_AlwaysSucceeds ==
  (last.op = "CreatedOrUpdated" /\ last.a.Status.Address # "")
    => (last.ret = "nil" /\ last.calls = <<>>)

\* C1 amended: for every object with a non-empty Status.Address,
\* IpAddressCreatedOrUpdated makes no backend call, no Update and no event,
\* and changes neither the store, the backend nor its argument; it returns
\* nil, except that it panics when Spec.Name is empty and the name template
\* fails to render (NameFor runs before the status is looked at).
C1_Idempotent ==
  [][(last'.op = "CreatedOrUpdated" /\ last'.a.Status.Address # "")
       => /\ last'.calls = <<>>
          /\ stored' = stored
          /\ allocated' = allocated
          /\ last'.aOut = last'.a
          /\ last'.ret = IF NameAborts(cfg[last'.inst], last'.a)
                           THEN "panic" ELSE "nil"]_vars

\* The instance is handed again the object it has assigned itself.
C1_Witness ==
  /\ last.op = "CreatedOrUpdated"
  /\ last.a.Status.Address # ""
  /\ assigned.inst = last.inst
  /\ last.a = stored
  /\ last.ret = "nil"

\* C2: for an object with empty Status.Address and empty Spec.Ref, when
\* Assign and Update succeed, the handler calls Assign once with the
\* resolved name, never Search, Update once with Status = {the address
\* Assign returned, the resolved name, this instance's IpamName}, creates no
\* event and returns nil; the store then holds that status.
C2_FreshAssignment ==
  (/\ last.op = "CreatedOrUpdated"
   /\ last.a.Status.Address = ""
   /\ last.a.Spec.Ref = ""
   /\ last.ret # "panic"
   /\ AllCallsOk(last))
    => LET c == cfg[last.inst]
           status == [Address  |-> TheCall(last, "Assign").res,
                      Name     |-> ResolvedName(c, last.a),
                      Provider |-> c.IpamName]
       IN  /\ NCalls(last, "Assign") = 1
           /\ TheCall(last, "Assign").arg = ResolvedName(c, last.a)
           /\ NCalls(last, "Search") = 0
           /\ NCalls(last, "Unassign") = 0
           /\ NCalls(last, "Events.Create") = 0
           /\ NCalls(last, "Update") = 1
           /\ Len(last.calls) = 2
           /\ TheCall(last, "Update").arg = [last.a EXCEPT !.Status = status]
           /\ stored.Status = status
           /\ last.ret = "nil"

C2_Witness ==
  /\ last.op = "CreatedOrUpdated"
  /\ last.a.Status.Address = ""
  /\ last.a.Spec.Ref = ""
  /\ last.a.Spec.Name = ""
  /\ NCalls(last, "Assign") = 1
  /\ AllCallsOk(last)
  /\ stored.Status.Address = AddrName[2]
  /\ last.ret = "nil"

\* C3: when this instance's IpAddressCreatedOrUpdated was returned x by
\* Assign and persisted it, its IpAddressDeleted on the stored object calls
\* Unassign once, with x, and nothing else; when Unassign succeeds the
\* handler returns nil and x is no longer allocated.
C3_RoundTrip ==
  (/\ last.op = "Deleted"
   /\ assigned # NoAssign
   /\ assigned.inst = last.inst
   /\ last.a = stored)
    => /\ NCalls(last, "Unassign") = 1
       /\ TheCall(last, "Unassign").arg = assigned.addr
       /\ NCalls(last, "Assign") = 0
       /\ NCalls(last, "Search") = 0
       /\ NCalls(last, "Update") = 0
       /\ TheCall(last, "Unassign").ok
            => /\ last.ret = "nil"
               /\ last.calls = <<TheCall(last, "Unassign")>>
               /\ assigned.addr \notin allocated

C3_Witness ==
  /\ last.op = "Deleted"
  /\ assigned.inst = last.inst
  /\ last.a = stored
  /\ stored.Status.Address = AddrName[2]
  /\ NCalls(last, "Unassign") = 1
  /\ TheCall(last, "Unassign").ok
  /\ last.ret = "nil"

\* C4: for an object with empty Status.Address and non-empty Spec.Ref the
\* handler never calls Assign and calls Search(Spec.Ref, true) once (not at
\* all when name resolution aborts before it); with 0 or with 2 or more
\* matches it returns an error, makes no Update and leaves the stored object
\* and its argument as they are; an Update is made, and the stored status
\* changes, only with exactly one match, and the address written is that
\* match.
C4_ExactlyOneMatch ==
  [][(/\ last'.op = "CreatedOrUpdated"
      /\ last'.a.Status.Address = ""
      /\ last'.a.Spec.Ref # "")
       => LET s == TheCall(last', "Search")
              aborts == NameAborts(cfg[last'.inst], last'.a)
          IN  /\ NCalls(last', "Assign") = 0
              /\ NCalls(last', "Search") = IF aborts THEN 0 ELSE 1
              /\ aborts => (last'.calls = <<>> /\ stored' = stored)
              /\ ~aborts => s.arg = <<last'.a.Spec.Ref, TRUE>>
              /\ (~aborts /\ s.ok /\ Len(s.res) # 1)
                   => /\ last'.ret = Err
                      /\ NCalls(last', "Update") = 0
                      /\ stored' = stored
                      /\ last'.aOut.Status.Address = ""
              /\ NCalls(last', "Update") > 0
                   => /\ s.ok
                      /\ Len(s.res) = 1
                      /\ TheCall(last', "Update").arg.Status.Address = s.res[1]
              /\ stored'.Status # stored.Status
                   => /\ s.ok
                      /\ Len(s.res) = 1
                      /\ stored'.Status.Address = s.res[1]]_vars

\* Search found two addresses.
C4_Witness ==
  /\ last.op = "CreatedOrUpdated"
  /\ last.a.Status.Address = ""
  /\ last.a.Spec.Ref # ""
  /\ NCalls(last, "Search") = 1
  /\ TheCall(last, "Search").ok
  /\ Len(TheCall(last, "Search").res) = 2
  /\ last.ret = Err
  /\ stored.Status.Address = ""

\* C5: for every object whose Status.Provider is non-empty and is not this
\* instance's IpamName, IpAddressDeleted calls nothing (no Unassign, no
\* event) and returns nil, whatever Status.Address and Spec.Ref are.
C5_ForeignUntouched ==
  (/\ last.op = "Deleted"
   /\ last.a.Status.Provider # ""
   /\ last.a.Status.Provider # cfg[last.inst].IpamName)
    => (last.calls = <<>> /\ last.ret = "nil")

C5_Witness ==
  /\ last.op = "Deleted"
  /\ last.a.Status.Provider = OtherProvider
  /\ last.a.Status.Address # ""
  /\ last.a.Spec.Ref = ""
  /\ last.ret = "nil"

\* C6: while the object has a non-empty Spec.Ref, no handler invocation of
\* any instance calls Unassign, whatever was delivered before, and every
\* IpAddressDeleted returns nil without calling anything.
C6_ReferenceNeverReleased ==
  stored.Spec.Ref # ""
    => /\ released = {}
       /\ NCalls(last, "Unassign") = 0
       /\ last.op = "Deleted" => (last.ret = "nil" /\ last.calls = <<>>)

\* The instance that resolved the reference is handed the deletion.
C6_Witness ==
  /\ stored.Spec.Ref # ""
  /\ last.op = "Deleted"
  /\ last.a.Status.Address # ""
  /\ last.a.Status.Provider = cfg[last.inst].IpamName
  /\ last.ret = "nil"

\* The instances have pairwise distinct identities.
DistinctIdentities ==
  \A c, d \in Instances : c # d => cfg[c].IpamName # cfg[d].IpamName

\* C7 as stated: whenever IpAddressDeleted calls Unassign, the object's
\* Status.Provider is the instance's IpamName; so of instances with distinct
\* identities at most one calls Unassign for the object.
C7_OnlyAssignerReleases ==
  /\ (last.op = "Deleted" /\ NCalls(last, "Unassign") > 0)
       => last.a.Status.Provider = cfg[last.inst].IpamName
  /\ DistinctIdentities => Cardinality(released) <= 1

\* C7 amended: whenever IpAddressDeleted calls Unassign, the object's
\* Status.Provider is empty or the instance's IpamName; so of instances with
\* distinct identities at most one calls Unassign for an object whose stored
\* Status.Provider is non-empty.
C7_OwnerOrUnowned ==
  /\ (last.op = "Deleted" /\ NCalls(last, "Unassign") > 0)
       => last.a.Status.Provider \in {"", cfg[last.inst].IpamName}
  /\ (DistinctIdentities /\ stored.Status.Provider # "")
       => Cardinality(released) <= 1

\* Both instances have handled the deletion; one of them has released.
C7_Witness ==
  /\ DistinctIdentities
  /\ stored.Status.Provider # ""
  /\ \A c \in Instances : delState[c] = "done"
  /\ Cardinality(released) = 1

\* C8: the stored Status.Address becomes non-empty only by a successful
\* Update of an IpAddressCreatedOrUpdated that returns nil, and once it is
\* non-empty no step changes the stored Status (Address, Name, Provider).
C8_WriteOnce ==
  [][/\ stored.Status.Address # "" => stored'.Status = stored.Status
     /\ (stored.Status.Address = "" /\ stored'.Status.Address # "")
          => /\ last'.op = "CreatedOrUpdated"
             /\ last'.ret = "nil"
             /\ NCalls(last', "Update") = 1
             /\ TheCall(last', "Update").ok
             /\ TheCall(last', "Update").arg.Status = stored'.Status]_vars

\* A stale snapshot without address is handled after the address was
\* stored: the Update is rejected.
C8_Witness ==
  /\ last.op = "CreatedOrUpdated"
  /\ last.a.Status.Address = ""
  /\ stored.Status.Address # ""
  /\ NCalls(last, "Update") = 1
  /\ ~TheCall(last, "Update").ok
  /\ last.ret = Err

\* A backend call of the invocation r returned an error.
BackendFailed(r) ==
  \E k \in DOMAIN r.calls :
    r.calls[k].fn \in {"Assign", "Search"} /\ ~r.calls[k].ok

\* C9: when Assign or Search returns an error, IpAddressCreatedOrUpdated
\* returns an error, makes no Update, and leaves the stored object and the
\* object it was handed unchanged.
C9_BackendFailure ==
  [][(last'.op = "CreatedOrUpdated" /\ BackendFailed(last'))
       => /\ last'.ret = Err
          /\ last'.err # <<>>
          /\ NCalls(last', "Update") = 0
          /\ stored' = stored
          /\ last'.aOut = last'.a]_vars

C9_Witness ==
  /\ last.op = "CreatedOrUpdated"
  /\ last.a.Spec.Ref = ""
  /\ NCalls(last, "Assign") = 1
  /\ ~TheCall(last, "Assign").ok
  /\ last.ret = Err

\* The Update of the invocation r failed after Assign had returned x.
Orphaning(r) ==
  /\ r.op = "CreatedOrUpdated"
  /\ NCalls(r, "Assign") = 1
  /\ TheCall(r, "Assign").ok
  /\ NCalls(r, "Update") > 0
  /\ ~TheCall(r, "Update").ok

\* C10: when Assign returns x and the Update fails, the handler returns an
\* error, calls no Unassign, does not change the stored object, and x stays
\* allocated; handed an object without address and without Ref, the handler
\* calls Assign (again, when it is a redelivery) unless name resolution
\* aborts before it.
C10_Orphan ==
  [][/\ Orphaning(last')
          => /\ last'.ret = Err
             /\ last'.err # <<>>
             /\ NCalls(last', "Unassign") = 0
             /\ NCalls(last', "Update") = 1
             /\ stored' = stored
             /\ TheCall(last', "Assign").res \in allocated'
     /\ (/\ last'.op = "CreatedOrUpdated"
         /\ last'.a.Status.Address = ""
         /\ last'.a.Spec.Ref = "")
          => NCalls(last', "Assign") =
               IF NameAborts(cfg[last'.inst], last'.a) THEN 0 ELSE 1]_vars

\* The redelivery after a failed Update was assigned another address, and
\* its Update failed too: two addresses are allocated, none is stored.
C10_Witness ==
  /\ Orphaning(last)
  /\ stored.Status.Address = ""
  /\ Cardinality(allocated) = 2
  /\ last.ret = Err

\* The event of an invocation that created one.
TheEvent(r) == TheCall(r, "Events.Create").arg

\* A collaborator other than the event sink answered with an error, or
\* Search did not return exactly one address.
FailurePath(r) ==
  \E k \in DOMAIN r.calls :
    /\ r.calls[k].fn # "Events.Create"
    /\ \/ ~r.calls[k].ok
       \/ r.calls[k].fn = "Search" /\ Len(r.calls[k].res) # 1

HasVerb(message) == \E k \in DOMAIN message : message[k] \in VerbTexts

\* C11 as stated: on every failure path (Assign error, Search error, zero
\* matches, several matches, Update error, Unassign error) the handler
\* attempts exactly one Warning event and returns an error whose text is the
\* event's message, whether or not the event was created; an invocation
\* that is not on a failure path creates no event.
C11_EventAndError ==
  last.op \in {"CreatedOrUpdated", "Deleted"} =>
    IF FailurePath(last)
      THEN /\ last.ret = Err
           /\ NCalls(last, "Events.Create") = 1
           /\ TheEvent(last).Type = "Warning"
           /\ last.err = TheEvent(last).Message
      ELSE /\ last.ret # Err
           /\ NCalls(last, "Events.Create") = 0

\* C11, what the handlers do: the failure paths attempt exactly one Warning
\* event and return an error whether or not the event was created, and no
\* other path creates an event; the error's text is the event's message only
\* when the message holds no formatting verb, and otherwise has the verb
\* replaced by fmt's missing-operand marker.
C11_EventAndFormattedError ==
  last.op \in {"CreatedOrUpdated", "Deleted"} =>
    IF FailurePath(last)
      THEN /\ last.ret = Err
           /\ NCalls(last, "Events.Create") = 1
           /\ TheEvent(last).Type = "Warning"
           /\ Len(last.err) = Len(TheEvent(last).Message)
           /\ \A k \in DOMAIN last.err :
                last.err[k] = IF TheEvent(last).Message[k] = VerbRef
                                THEN "host=%!s(MISSING)"
                                ELSE TheEvent(last).Message[k]
           /\ HasVerb(TheEvent(last).Message)
                => last.err # TheEvent(last).Message
      ELSE /\ last.ret # Err
           /\ NCalls(last, "Events.Create") = 0

\* Search finds nothing for a reference that holds a verb, and the event is
\* not created.
C11_Witness ==
  /\ last.op = "CreatedOrUpdated"
  /\ last.ret = Err
  /\ last.a.Spec.Ref = VerbRef
  /\ NCalls(last, "Search") = 1
  /\ TheCall(last, "Search").ok
  /\ TheCall(last, "Search").res = <<>>
  /\ ~TheCall(last, "Events.Create").ok

\* C12: for every resource with non-empty Spec.Name, whatever the Tag, the
\* Namespace, the Name and the NameTemplate, NameFor returns Spec.Name
\* verbatim and does not execute the template, so it cannot abort; the
\* handler hands that name to Assign.
C12_ExplicitName ==
  (last.op = "CreatedOrUpdated" /\ last.a.Spec.Name # "")
    => /\ last.oname.name = last.a.Spec.Name
       /\ ~last.oname.rendered
       /\ ~last.oname.panic
       /\ last.ret # "panic"
       /\ NCalls(last, "Assign") = 1
            => TheCall(last, "Assign").arg = last.a.Spec.Name

\* An explicitly named object is assigned under a template that cannot be
\* rendered, with a tag, namespace and name other than the usual ones.
C12_Witness ==
  /\ last.op = "CreatedOrUpdated"
  /\ last.a.Spec.Name = "web1"
  /\ cfg[last.inst].NameTemplate = BadTemplate
  /\ cfg[last.inst].Tag = "dev"
  /\ last.a.Namespace = "ns2"
  /\ last.a.Name = "b"
  /\ last.oname.name = "web1"
  /\ NCalls(last, "Assign") = 1
  /\ TheCall(last, "Assign").arg = "web1"

\* C13: for every resource with empty Spec.Name, NameFor executes the
\* configured template on the controller's Tag and the resource's Namespace
\* and Name: the template Tag-Namespace-Name gives the three values joined
\* by "-" in that order (prod, ns1, a gives "prod-ns1-a"), the template
\* Name.Namespace gives the two joined by "."; the result is the same for
\* every Spec.Ref, Status and IpamName, and is the name handed to Assign.
C13_TemplateName ==
  (last.op = "CreatedOrUpdated" /\ last.a.Spec.Name = "")
    => LET c == cfg[last.inst]
           a == last.a
       IN  /\ last.oname.rendered
           /\ c.NameTemplate = DefaultTemplate
                => /\ ~last.oname.panic
                   /\ last.oname.name =
                        c.Tag \o "-" \o a.Namespace \o "-" \o a.Name
           /\ c.NameTemplate = DottedTemplate
                => /\ ~last.oname.panic
                   /\ last.oname.name = a.Name \o "." \o a.Namespace
           /\ (/\ c.NameTemplate = DefaultTemplate
               /\ c.Tag = "prod" /\ a.Namespace = "ns1" /\ a.Name = "a")
                => last.oname.name = "prod-ns1-a"
           /\ NCalls(last, "Assign") = 1
                => TheCall(last, "Assign").arg = last.oname.name

\* The example of the claim, for an instance whose provider identity differs
\* from its tag.
C13_Witness ==
  /\ last.op = "CreatedOrUpdated"
  /\ last.a.Spec.Name = ""
  /\ cfg[last.inst].NameTemplate = DefaultTemplate
  /\ cfg[last.inst].Tag = "prod"
  /\ cfg[last.inst].IpamName = "provA"
  /\ last.a.Namespace = "ns1"
  /\ last.a.Name = "a"
  /\ last.oname.name = "prod-ns1-a"
  /\ NCalls(last, "Assign") = 1
  /\ TheCall(last, "Assign").arg = "prod-ns1-a"

\* The deletion handler's decision for object a at an instance configured c.
Releases(c, a) ==
  /\ a.Status.Provider = "" \/ a.Status.Provider = c.IpamName
  /\ a.Status.Address # ""
  /\ a.Spec.Ref = ""

\* C14: IpAddressDeleted calls Unassign if and only if Status.Provider is
\* empty or the instance's IpamName, Status.Address is non-empty and
\* Spec.Ref is empty; then it calls it exactly once, with Status.Address,
\* and calls nothing else of the backend or the store; in every other case
\* it calls nothing at all and returns nil.
C14_DecisionTable ==
  last.op = "Deleted" =>
    IF Releases(cfg[last.inst], last.a)
      THEN /\ NCalls(last, "Unassign") = 1
           /\ TheCall(last, "Unassign").arg = last.a.Status.Address
           /\ NCalls(last, "Assign") = 0
           /\ NCalls(last, "Search") = 0
           /\ NCalls(last, "Update") = 0
      ELSE /\ last.calls = <<>>
           /\ last.ret = "nil"

\* An address assigned before the status recorded a provider is released.
C14_Witness ==
  /\ last.op = "Deleted"
  /\ last.a.Status.Provider = ""
  /\ last.a.Status.Address = AddrName[1]
  /\ last.a.Spec.Ref = ""
  /\ last.calls = <<Call("Unassign", AddrName[1], TRUE, "nil")>>
  /\ last.ret = "nil"

\* C15 as stated: the already-assigned check comes before name resolution,
\* so for an object with non-empty Status.Address the template is never
\* rendered and a rendering failure cannot abort the invocation.
C15_CheckBeforeName ==
  (last.op = "CreatedOrUpdated" /\ last.a.Status.Address # "")
    => /\ ~last.oname.rendered
       /\ last.ret # "panic"

\* C15 amended: name resolution comes first.  In every invocation of
\* IpAddressCreatedOrUpdated, whatever Status.Address is, the template is
\* rendered exactly when Spec.Name is empty, and the invocation aborts
\* exactly when that rendering fails; the already-assigned check follows,
\* so an assigned object is a no-op returning nil only when the name
\* resolves.
C15_NameBeforeCheck ==
  last.op = "CreatedOrUpdated" =>
    /\ last.oname.rendered <=> last.a.Spec.Name = ""
    /\ last.ret = "panic" <=> NameAborts(cfg[last.inst], last.a)
    /\ last.ret = "panic" => last.calls = <<>>
    /\ (last.a.Status.Address # "" /\ last.ret # "panic")
         => last.ret = "nil" /\ last.calls = <<>>

\* An assigned object without explicit name is delivered to an instance
\* whose template does not render.
C15_Witness ==
  /\ last.op = "CreatedOrUpdated"
  /\ last.a.Status.Address # ""
  /\ last.a.Spec.Name = ""
  /\ cfg[last.inst].NameTemplate = BadTemplate
  /\ last.oname.rendered
  /\ last.ret = "panic"

\* C16: an invocation aborts (panics) exactly when it is an
\* IpAddressCreatedOrUpdated of an object with empty Spec.Name under a
\* template that fails to render; it then returns no error value, attempts
\* no event, has made no backend call and no Update, and leaves the store
\* and the backend's allocations as they were.  IpAddressDeleted never
\* aborts.
C16_AbortOnlyOnTemplate ==
  [][last'.op \in {"CreatedOrUpdated", "Deleted"}
       => /\ last'.ret = "panic"
               <=> /\ last'.op = "CreatedOrUpdated"
                   /\ NameAborts(cfg[last'.inst], last'.a)
          /\ last'.ret = "panic"
               => /\ last'.err = <<>>
                  /\ last'.calls = <<>>
                  /\ stored' = stored
                  /\ allocated' = allocated]_vars

\* A new object without explicit name is delivered to an instance whose
\* template does not render: nothing is allocated.
C16_Witness ==
  /\ last.op = "CreatedOrUpdated"
  /\ last.a.Status.Address = ""
  /\ last.a.Spec.Name = ""
  /\ last.a.Spec.Ref = ""
  /\ cfg[last.inst].NameTemplate = BadTemplate
  /\ last.ret = "panic"
  /\ last.err = <<>>
  /\ allocated = {}

\* C18: IpAddressCreatedOrUpdated issues at most one Update, and it carries
\* the version of the delivered snapshot.  If the stored object has moved on
\* since the snapshot, the Update is rejected, the stored object stays as it
\* is and the handler returns an error.  An accepted Update replaces in the
\* stored object the Status (Address, Name, Provider) and nothing else,
\* apart from the version the store advances.
C18_OptimisticUpdate ==
  [][(last'.op = "CreatedOrUpdated" /\ NCalls(last', "Update") > 0)
       => LET u == TheCall(last', "Update")
          IN  /\ NCalls(last', "Update") = 1
              /\ u.arg.ResourceVersion = last'.a.ResourceVersion
              /\ stored.ResourceVersion # last'.a.ResourceVersion
                   => /\ ~u.ok
                      /\ stored' = stored
                      /\ last'.ret = Err
              /\ u.ok
                   => stored' =
                        [stored EXCEPT !.Status = u.arg.Status,
                                       !.ResourceVersion = @ + 1]
              /\ ~u.ok => stored' = stored /\ last'.ret = Err]_vars

\* The instance writes back from a snapshot that another writer has
\* overtaken.
C18_Witness ==
  /\ last.op = "CreatedOrUpdated"
  /\ stored.Meta # last.a.Meta
  /\ stored.ResourceVersion # last.a.ResourceVersion
  /\ NCalls(last, "Update") = 1
  /\ TheCall(last, "Update").arg.ResourceVersion = last.a.ResourceVersion
  /\ ~TheCall(last, "Update").ok
  /\ stored.Status.Address = ""
  /\ last.ret = Err

\* C19: IpAddressCreatedOrUpdated leaves the object it was handed as it was
\* on every path (the status is set on a copy only), and IpAddressDeleted
\* leaves its argument as it was, calls no Update and changes neither the
\* stored object nor its presence in the store.
C19_ArgumentUntouched ==
  [][/\ last'.op \in {"CreatedOrUpdated", "Deleted"}
          => last'.aOut = last'.a
     /\ last'.op = "Deleted"
          => /\ NCalls(last', "Update") = 0
             /\ stored' = stored
             /\ present' = present]_vars

\* The status has been written to the store, and the argument still has
\* none.
C19_Witness ==
  /\ last.op = "CreatedOrUpdated"
  /\ last.persisted
  /\ last.a.Status = EmptyStatus
  /\ last.aOut.Status = EmptyStatus
  /\ stored.Status.Address # ""

\* An invocation that returns an error leaves the stored status as it was.
FailureKeepsState ==
  [][last'.ret = Err => stored'.Status = stored.Status]_vars

\* The object is deleted and the instance has released its address: the
\* deletion handler has returned nil after an Unassign, and the address is
\* no longer allocated.
Released ==
  /\ delState["c1"] = "done"
  /\ "c1" \in released
  /\ stored.Status.Address \notin allocated

\* From some point on no call into a collaborator fails.
EventuallySucceed == <>[]AllCallsOk(last)

\* C17 as stated: a failed invocation leaves the resource in its state, and
\* under redelivery, if the collaborators' calls eventually succeed, every
\* resource with empty Spec.Ref is eventually Assigned (unless it is
\* deleted first) and every deleted resource the instance owns is
\* eventually released by a successful Unassign.
C17_Progress ==
  /\ FailureKeepsState
  /\ EventuallySucceed
       => ((present /\ stored.Spec.Ref = "")
             ~> (stored.Status.Address # "" \/ ~present))
  /\ EventuallySucceed
       => ((~present /\ Releases(cfg["c1"], stored)) ~> Released)

\* C17 amended: the same, for resources whose name resolves.  A resource
\* with empty Spec.Name under a template that does not render is never
\* Assigned: every delivery aborts before Assign.
C17_ProgressWhenNamed ==
  /\ FailureKeepsState
  /\ EventuallySucceed
       => ((present /\ stored.Spec.Ref = ""
                    /\ ~NameAborts(cfg["c1"], stored))
             ~> (stored.Status.Address # "" \/ ~present))
  /\ EventuallySucceed
       => ((~present /\ Releases(cfg["c1"], stored)) ~> Released)
  /\ [][NameAborts(cfg["c1"], stored)
          => stored'.Status = stored.Status]_vars

\* The resource is Assigned by a redelivery that follows a failed write-back:
\* the backend holds the address of the failed attempt, too.
C17_Witness ==
  /\ last.op = "CreatedOrUpdated"
  /\ last.persisted
  /\ last.ret = "nil"
  /\ stored.Spec.Ref = ""
  /\ stored.Status.Address # ""
  /\ Cardinality(allocated) = 2

=============================================================================
